---- MODULE Spec2Model ----
(***************************************************************************)
(* Model of src/bot_app/main.py: a Tk window (foreground thread) that      *)
(* drains a log queue on a timer, and a daemon thread running an asyncio   *)
(* loop with a python-telegram-bot Application whose image handler sends   *)
(* pictures to the Cloudmersive barcode API.                               *)
(*                                                                         *)
(* Six specifications share the variables:                                 *)
(*   SpecConfig  BotApp.__init__ / ensure_config, from the config file to  *)
(*               either a destroyed window or a started bot thread;        *)
(*   Spec        the program after a successful construction: the bot      *)
(*               thread, the handlers and on_close;                        *)
(*   SpecFair    Spec with an event loop that keeps evaluating the loop    *)
(*               condition of _run_async_bot;                              *)
(*   SpecRoute   the bot thread up to polling and the handlers, keeping    *)
(*               the kind of every dispatched update;                      *)
(*   SpecDecode  decode_datamatrix as a function of its inputs;            *)
(*   SpecLog     QueueLogger.emit in any thread against the log timer      *)
(*               poll_log_queue of the foreground thread.                  *)
(*                                                                         *)
(* Texts are sequences of characters, so that str.strip() is computed.     *)
(* Status texts and log lines are named in ASCII; the comment at each      *)
(* definition gives the literal of the source.                             *)
(***************************************************************************)
EXTENDS Naturals, Sequences, FiniteSets, Bags

VARIABLES
    configFile,   \* content of CONFIG_FILE (config.json)
    ec,           \* locals of ensure_config: loaded_config, token, api_key
    config,       \* self.config
    asked,        \* dialogs shown so far, in order
    saves,        \* number of BotConfig.save calls
    fgpc,         \* position of the foreground (Tk) thread
    inPoll,       \* the foreground is inside poll_log_queue
    LOG_QUEUE,    \* the module-level queue.Queue
    published,    \* every message put on LOG_QUEUE, in put order
    log_widget,   \* lines appended to the ScrolledText by append_log
    logged,       \* lines logged by the program so far, with their counts
    status,       \* self.status_var
    stop_event,   \* self._stop_event
    application,  \* self._application is not None
    barcode_api,  \* self._barcode_api is not None
    client,       \* state of the telegram Application and its Updater
    bgpc,         \* position of _run_async_bot in the bot thread
    sdTasks,      \* shutdown_bot coroutines scheduled by on_close
    shutdownRuns, \* executions of the body of shutdown_bot started
    destroyTimer, \* root.after(500, root.destroy) is pending
    handlers,     \* handler invocations dispatched by the Application
    dIn,          \* SpecDecode: the input of decode_datamatrix
    dOut,         \* SpecDecode: its outcome
    inbound       \* SpecRoute: the kinds of the updates dispatched, in order

cfgVars == <<configFile, ec, config, asked, saves>>
relayVars == <<LOG_QUEUE, published, log_widget>>
botVars == <<status, stop_event, application, barcode_api, client, bgpc,
             sdTasks, shutdownRuns, destroyTimer, handlers>>
decVars == <<dIn, dOut>>
vars == <<configFile, ec, config, asked, saves, fgpc, inPoll, LOG_QUEUE,
          published, log_widget, logged, status, stop_event, application,
          barcode_api, client, bgpc, sdTasks, shutdownRuns,
          destroyTimer, handlers, dIn, dOut, inbound>>

----------------------------------------------------------------------------
(* Bounds *)

MaxLen == 2        \* longest raw text in the config file or a dialog entry
MaxUpdates == 2    \* inbound updates dispatched during one run
MaxClose == 1      \* calls of on_close whose create_task schedules a task
MaxSymbols == 2    \* symbol records in one API response
MaxLog == 3        \* lines published to the log relay

----------------------------------------------------------------------------
(* Texts and str.strip() *)

Chars == {" ", "x"}

RawStr == UNION {[1..n -> Chars] : n \in 0..MaxLen}

RECURSIVE LStrip(_)
LStrip(s) == IF s # <<>> /\ Head(s) = " " THEN LStrip(Tail(s)) ELSE s

RECURSIVE RStrip(_)
RStrip(s) ==
    IF s # <<>> /\ s[Len(s)] = " " THEN RStrip(SubSeq(s, 1, Len(s) - 1)) ELSE s

Strip(s) == RStrip(LStrip(s))

----------------------------------------------------------------------------
(* Logging.  Every logging.info/warning/error/exception call of the program *)
(* reaches QueueLogger.emit, which puts the formatted line on LOG_QUEUE.    *)
(* The steps of the program record the lines they log in `logged`; what     *)
(* emit and poll_log_queue do with a stream of lines is SpecLog.            *)

RECURSIVE BagOfSeq(_)
BagOfSeq(q) ==
    IF q = <<>> THEN EmptyBag ELSE SetToBag({Head(q)}) (+) BagOfSeq(Tail(q))

\* the logging calls of one step
Log(recs) == logged' = logged (+) BagOfSeq(recs)

ProcessAlive == fgpc \notin {"destroyed", "crashed"}

-----
(* Configuration: BotConfig.load, BotConfig.save, ensure_config, __init__ *)

MsgLoaded == <<"INFO", "config_loaded">>      \* "Конфигурация успешно загружена"
MsgReadError == <<"ERROR", "config_read_error">> \* "Ошибка чтения config.json: %s"
MsgSaved == <<"INFO", "config_saved">>        \* "Конфигурация сохранена в config.json"

NoConfig == [present |-> FALSE, token |-> <<>>, api_key |-> <<>>]
MkConfig(t, k) == [present |-> TRUE, token |-> t, api_key |-> k]

\* what config.json may hold: no file, text that is not JSON, JSON that is no
\* object, or an object whose "token" and "api_key" are texts ("" when absent)
ConfigFiles ==
    {[kind |-> k, token |-> <<>>, api_key |-> <<>>] :
        k \in {"missing", "malformed", "notobject"}}
    \cup {[kind |-> "object", token |-> t, api_key |-> k] :
            t \in RawStr, k \in RawStr}

\* BotConfig.load: the value returned, the lines logged, whether it raised
load(file) ==
    CASE file.kind = "missing" ->
            [raised |-> FALSE, cfg |-> NoConfig, logs |-> <<>>]
      [] file.kind = "malformed" ->
            [raised |-> FALSE, cfg |-> NoConfig, logs |-> <<MsgReadError>>]
      [] file.kind = "notobject" ->
            [raised |-> TRUE, cfg |-> NoConfig, logs |-> <<>>]
      [] OTHER ->
            LET token == Strip(file.token)
                api_key == Strip(file.api_key)
            IN [raised |-> FALSE,
                cfg |-> MkConfig(token, api_key),
                logs |-> IF token # <<>> /\ api_key # <<>>
                         THEN <<MsgLoaded>> ELSE <<>>]

\* BotConfig.save: the file written
save(cfg) == [kind |-> "object", token |-> cfg.token, api_key |-> cfg.api_key]

\* a modal dialog: cancelled (result None) or applied (entry.get().strip())
DialogResults ==
    {[ok |-> FALSE, text |-> <<>>]}
    \cup {[ok |-> TRUE, text |-> Strip(r)] : r \in RawStr}

\* dialog.result or ""
ResultOrEmpty(res) == IF res.ok THEN res.text ELSE <<>>

\* ensure_config returns cfg: __init__ stores it and goes on to its check
EnsureReturn(cfg) ==
    /\ config' = cfg
    /\ fgpc' = "check"

\* the last lines of ensure_config without the call of save
EnsureWithoutSave(token, api_key) ==
    /\ EnsureReturn(MkConfig(token, api_key))
    /\ UNCHANGED <<configFile, saves, logged>>

\* ensure_config reached its last lines: build the config, save it, return it
EnsureSave(token, api_key) ==
    /\ configFile' = save(MkConfig(token, api_key))
    /\ saves' = saves + 1
    /\ Log(<<MsgSaved>>)
    /\ EnsureReturn(MkConfig(token, api_key))

\* ensure_config up to its first dialog (or its early return)
EnsureConfigLoad ==
    /\ fgpc = "construct"
    /\ ~inPoll
    /\ LET r == load(configFile)
           token == IF r.cfg.present THEN r.cfg.token ELSE <<>>
           api_key == IF r.cfg.present THEN r.cfg.api_key ELSE <<>>
       IN IF r.raised
          THEN /\ fgpc' = "crashed"
               /\ UNCHANGED <<cfgVars, logged>>
          ELSE /\ ec' = [loaded |-> r.cfg, token |-> token, api_key |-> api_key]
               /\ IF token # <<>> /\ api_key # <<>>
                  THEN /\ EnsureReturn(r.cfg)
                       /\ Log(r.logs)
                       /\ UNCHANGED <<configFile, asked, saves>>
                  ELSE /\ fgpc' = IF token = <<>> THEN "token_dialog"
                                  ELSE "key_dialog"
                       /\ Log(r.logs)
                       /\ UNCHANGED <<configFile, config, asked, saves>>
    /\ UNCHANGED <<inPoll, botVars, relayVars, decVars, inbound>>

\* TokenDialog closes
AskToken ==
    /\ fgpc = "token_dialog"
    /\ ~inPoll
    /\ \E res \in DialogResults :
         LET token == ResultOrEmpty(res) IN
         /\ asked' = Append(asked, "token")
         /\ ec' = [ec EXCEPT !.token = token]
         /\ IF token = <<>>
            THEN /\ EnsureReturn(NoConfig)
                 /\ UNCHANGED <<configFile, saves, logged>>
            ELSE IF ec.api_key = <<>>
            THEN /\ fgpc' = "key_dialog"
                 /\ UNCHANGED <<configFile, config, saves, logged>>
            ELSE /\ EnsureSave(token, ec.api_key)
    /\ UNCHANGED <<inPoll, botVars, relayVars, decVars, inbound>>

\* ApiKeyDialog closes
AskApiKey ==
    /\ fgpc = "key_dialog"
    /\ ~inPoll
    /\ \E res \in DialogResults :
         LET api_key == ResultOrEmpty(res) IN
         /\ asked' = Append(asked, "api_key")
         /\ ec' = [ec EXCEPT !.api_key = api_key]
         /\ IF api_key = <<>>
            THEN /\ EnsureReturn(NoConfig)
                 /\ UNCHANGED <<configFile, saves, logged>>
            ELSE /\ EnsureSave(ec.token, api_key)
    /\ UNCHANGED <<inPoll, botVars, relayVars, decVars, inbound>>

\* an __init__ that starts the thread whatever ensure_config returned
ConfigNeverRejected(cfg) == FALSE

\* the condition of __init__ that ends the application
ConfigRejected(cfg) == ~cfg.present \/ cfg.token = <<>> \/ cfg.api_key = <<>>

\* start_bot_thread: nothing to do when the thread is alive, else start run_bot
start_bot_thread(pc) == IF pc \in {"none", "returned", "raised"} THEN "run" ELSE pc

\* __init__ after ensure_config: close the window, or start the bot thread
InitCheck ==
    /\ fgpc = "check"
    /\ ~inPoll
    /\ IF ConfigRejected(config)
       THEN /\ fgpc' = "destroyed"
            /\ UNCHANGED <<status, bgpc>>
       ELSE /\ status' = "Starting"           \* "Запуск бота..."
            /\ bgpc' = start_bot_thread(bgpc)
            /\ fgpc' = "mainloop"
    /\ UNCHANGED <<cfgVars, inPoll, logged, stop_event, application,
                   barcode_api, client, sdTasks, shutdownRuns,
                   destroyTimer, handlers, relayVars, decVars, inbound>>

----------------------------------------------------------------------------
(* The telegram Application as the program uses it.  initialize, start and *)
(* start_polling talk to the network and may raise.  stop and shutdown     *)
(* follow the library's contract: Updater.stop and Application.stop raise  *)
(* RuntimeError when the updater / application is not running, and         *)
(* Application.shutdown raises RuntimeError while it is still running.     *)

NewClient == [initialized |-> FALSE, running |-> FALSE, updater |-> FALSE]

MsgInit == <<"INFO", "bot_init">>             \* "Инициализация телеграм-бота"
MsgBackendFailed == <<"ERROR", "backend_init_failed">>
                                  \* "Не удалось инициализировать Cloudmersive API клиент: %s"
MsgConnected == <<"INFO", "connected">>       \* "Бот подключен. Ожидание обновлений..."
MsgCritical == <<"ERROR", "critical">>        \* "Критическая ошибка работы бота: %s"
MsgStopping == <<"INFO", "stopping">>         \* "Остановка бота"

StInitializing == "Initializing"   \* "Инициализация..."
StStarting == "Starting"           \* "Запуск бота..."
StPolling == "Polling"             \* "Бот запущен и ожидает сообщения"
StBackendError == "BackendError"   \* "Ошибка инициализации Cloudmersive API"
StError == "Error"                 \* "Ошибка: %s"
StStopped == "Stopped"             \* "Бот остановлен"

\* update_status
update_status(text) == status' = text

ThreadEnded == bgpc \in {"none", "returned", "raised"}

\* positions inside shutdown_bot
SdPcs == {"sd_call", "sd_updater_stop", "sd_stop", "sd_stop_wait", "sd_shutdown"}

\* handler invocations that have not ended
InFlight(hs) == {h \in BagToSet(hs) : h.pc \notin {"done", "raised", "cancelled"}}

\* shutdown_bot, one step from position pc: the next position, the client it
\* leaves, the status it sets, the lines it logs
shutdown_bot(pc) ==
    LET same == [pc |-> pc, client |-> client, status |-> status,
                 logs |-> <<>>, started |-> 0, enabled |-> TRUE]
    IN CASE pc = "sd_call" ->
              IF ~application
              THEN [same EXCEPT !.pc = "sd_done"]
              ELSE [same EXCEPT !.pc = "sd_updater_stop",
                                !.logs = <<MsgStopping>>, !.started = 1]
         [] pc = "sd_updater_stop" ->
              \* try: await updater.stop()  except Exception: pass
              [same EXCEPT !.pc = "sd_stop",
                           !.client = [client EXCEPT !.updater = FALSE]]
         [] pc = "sd_stop" ->
              \* await self._application.stop(): refuses when not running
              IF client.running
              THEN [same EXCEPT !.pc = "sd_stop_wait",
                                !.client = [client EXCEPT !.running = FALSE]]
              ELSE [same EXCEPT !.pc = "sd_raised"]
         [] pc = "sd_stop_wait" ->
              \* stop() returns once the pending handler callbacks have ended
              [same EXCEPT !.pc = "sd_shutdown",
                           !.enabled = (InFlight(handlers) = {})]
         [] pc = "sd_shutdown" ->
              \* await self._application.shutdown(); update_status(...)
              IF client.running
              THEN [same EXCEPT !.pc = "sd_raised"]
              ELSE [same EXCEPT !.pc = "sd_done",
                                !.client = [client EXCEPT !.initialized = FALSE],
                                !.status = StStopped]
         [] OTHER -> [same EXCEPT !.enabled = FALSE]

\* decoded_text of an invocation that has not decoded (or has ended)
NoResult == [none |-> TRUE, text |-> ""]

\* a handler invocation cancelled by asyncio.run closing its loop: the finally
\* block of handle_image runs only when the try block had been entered
CancelHandler(h) ==
    IF h.pc \in {"done", "raised", "cancelled"} THEN h
    ELSE [h EXCEPT !.pc = "cancelled", !.decoded = NoResult,
                   !.tmp = IF h.pc \in {"decode", "reply"} /\ h.tmp = "exists"
                           THEN "deleted" ELSE h.tmp]

\* a shutdown_bot() task cancelled the same way
CancelTask(pc) == IF pc \in SdPcs THEN "sd_cancelled" ELSE pc

\* asyncio.run ends: every task still pending on the loop is cancelled
CloseLoop ==
    /\ sdTasks' = BagOfAll(CancelTask, sdTasks)
    /\ handlers' = BagOfAll(CancelHandler, handlers)

\* an except clause without its return: the coroutine goes on to build the
\* Application although the Cloudmersive client could not be built
BackendInitGoesOn ==
    /\ ProcessAlive
    /\ bgpc = "run"
    /\ \E ok \in BOOLEAN :
         IF ok
         THEN /\ barcode_api' = TRUE
              /\ bgpc' = "build"
              /\ Log(<<MsgInit>>)
              /\ UNCHANGED status
         ELSE /\ Log(<<MsgInit, MsgBackendFailed>>)
              /\ update_status(StBackendError)
              /\ bgpc' = "build"
              /\ UNCHANGED barcode_api
    /\ UNCHANGED <<cfgVars, fgpc, inPoll, stop_event, application,
                   client, sdTasks, shutdownRuns, destroyTimer,
                   handlers, relayVars, decVars, inbound>>

\* _run_async_bot, lines 180-191: the Cloudmersive client is built or fails
BackendInit ==
    /\ ProcessAlive
    /\ bgpc = "run"
    /\ \E ok \in BOOLEAN :
         IF ok
         THEN /\ barcode_api' = TRUE
              /\ bgpc' = "build"
              /\ Log(<<MsgInit>>)
              /\ UNCHANGED status
         ELSE /\ Log(<<MsgInit, MsgBackendFailed>>)
              /\ update_status(StBackendError)
              /\ bgpc' = "returned"
              /\ UNCHANGED barcode_api
    /\ UNCHANGED <<cfgVars, fgpc, inPoll, stop_event, application,
                   client, sdTasks, shutdownRuns, destroyTimer,
                   handlers, relayVars, decVars, inbound>>

\* lines 193-203: build the Application, register the handlers, publish it,
\* set the status and call initialize(); build() raising leaves the coroutine
BuildApplication ==
    /\ ProcessAlive
    /\ bgpc = "build"
    /\ \E ok \in BOOLEAN :
         IF ok
         THEN /\ application' = TRUE
              /\ client' = NewClient
              /\ update_status(StPolling)
              /\ bgpc' = "initialize"
         ELSE /\ bgpc' = "raised"
              /\ UNCHANGED <<application, client, status>>
    /\ UNCHANGED <<cfgVars, fgpc, inPoll, logged, stop_event, barcode_api,
                   sdTasks, shutdownRuns, destroyTimer, handlers,
                   relayVars, decVars, inbound>>

\* the except clause of _run_async_bot, then the call in its finally clause
ExceptThenFinally ==
    /\ Log(<<MsgCritical>>)
    /\ update_status(StError)
    /\ bgpc' = "sd_call"

\* await application.initialize() returns or raises
Initialize ==
    /\ ProcessAlive
    /\ bgpc = "initialize"
    /\ \E ok \in BOOLEAN :
         IF ok
         THEN /\ client' = [client EXCEPT !.initialized = TRUE]
              /\ bgpc' = "start"
              /\ UNCHANGED <<status, logged>>
         ELSE /\ ExceptThenFinally
              /\ UNCHANGED client
    /\ UNCHANGED <<cfgVars, fgpc, inPoll, stop_event, application, barcode_api,
                   sdTasks, shutdownRuns, destroyTimer, handlers,
                   relayVars, decVars, inbound>>

\* await application.start() returns or raises
Start ==
    /\ ProcessAlive
    /\ bgpc = "start"
    /\ \E ok \in BOOLEAN :
         IF ok /\ client.initialized
         THEN /\ client' = [client EXCEPT !.running = TRUE]
              /\ Log(<<MsgConnected>>)
              /\ bgpc' = "start_polling"
              /\ UNCHANGED status
         ELSE /\ ExceptThenFinally
              /\ UNCHANGED client
    /\ UNCHANGED <<cfgVars, fgpc, inPoll, stop_event, application,
                   barcode_api, sdTasks, shutdownRuns, destroyTimer,
                   handlers, relayVars, decVars, inbound>>

\* await application.updater.start_polling() returns or raises
StartPolling ==
    /\ ProcessAlive
    /\ bgpc = "start_polling"
    /\ \E ok \in BOOLEAN :
         IF ok
         THEN /\ client' = [client EXCEPT !.updater = TRUE]
              /\ bgpc' = "loop"
              /\ UNCHANGED <<status, logged>>
         ELSE /\ ExceptThenFinally
              /\ UNCHANGED client
    /\ UNCHANGED <<cfgVars, fgpc, inPoll, stop_event, application, barcode_api,
                   sdTasks, shutdownRuns, destroyTimer, handlers,
                   relayVars, decVars, inbound>>

\* a loop that looks at the event only while a handler invocation exists
LoopCheckOnTraffic ==
    /\ ProcessAlive
    /\ bgpc = "loop"
    /\ stop_event
    /\ handlers # EmptyBag
    /\ bgpc' = "sd_call"
    /\ UNCHANGED <<cfgVars, fgpc, inPoll, logged, status, stop_event,
                   application, barcode_api, client, sdTasks, shutdownRuns,
                   destroyTimer, handlers, relayVars, decVars, inbound>>

\* while not self._stop_event.is_set(): await asyncio.sleep(0.5)
\* an iteration that finds the event clear changes nothing; the one that
\* finds it set leaves the try block for the finally clause
LoopCheck ==
    /\ ProcessAlive
    /\ bgpc = "loop"
    /\ stop_event
    /\ bgpc' = "sd_call"
    /\ UNCHANGED <<cfgVars, fgpc, inPoll, logged, status, stop_event,
                   application, barcode_api, client, sdTasks, shutdownRuns,
                   destroyTimer, handlers, relayVars, decVars, inbound>>

\* finally: await self.shutdown_bot(), one step; when it returns or raises the
\* coroutine ends, asyncio.run closes the loop and the thread ends
FinallyShutdown ==
    /\ ProcessAlive
    /\ bgpc \in SdPcs
    /\ LET r == shutdown_bot(bgpc) IN
         /\ r.enabled
         /\ client' = r.client
         /\ status' = r.status
         /\ shutdownRuns' = shutdownRuns + r.started
         /\ Log(r.logs)
         /\ IF r.pc \in {"sd_done", "sd_raised"}
            THEN /\ bgpc' = IF r.pc = "sd_done" THEN "returned" ELSE "raised"
                 /\ CloseLoop
            ELSE /\ bgpc' = r.pc
                 /\ UNCHANGED <<sdTasks, handlers>>
    /\ UNCHANGED <<cfgVars, fgpc, inPoll, stop_event, application,
                   barcode_api, destroyTimer, relayVars, decVars, inbound>>

\* a shutdown_bot() task scheduled by on_close takes one step on the loop
TaskShutdown ==
    /\ ProcessAlive
    /\ ~ThreadEnded
    /\ \E pc \in BagToSet(sdTasks) \cap SdPcs :
         /\ LET r == shutdown_bot(pc) IN
              /\ r.enabled
              /\ client' = r.client
              /\ status' = r.status
              /\ shutdownRuns' = shutdownRuns + r.started
              /\ Log(r.logs)
              /\ sdTasks' = (sdTasks (-) SetToBag({pc})) (+) SetToBag({r.pc})
    /\ UNCHANGED <<cfgVars, fgpc, inPoll, stop_event, application,
                   barcode_api, bgpc, destroyTimer, handlers, relayVars, decVars, inbound>>

\* an on_close that also writes the status from the Tk thread
on_close_sets_status ==
    /\ fgpc = "mainloop"
    /\ ~inPoll
    /\ stop_event' = TRUE
    /\ update_status(StStopped)
    /\ \/ /\ application
          /\ ~ThreadEnded
          /\ BagCardinality(sdTasks) < MaxClose
          /\ sdTasks' = sdTasks (+) SetToBag({"sd_call"})
       \/ UNCHANGED sdTasks
    /\ destroyTimer' = TRUE
    /\ UNCHANGED <<cfgVars, fgpc, inPoll, logged, application, barcode_api,
                   client, bgpc, shutdownRuns, handlers, relayVars, decVars,
                   inbound>>

\* on_close: set the stop event, try to schedule shutdown_bot() on the
\* Application (create_task raises RuntimeError without a running loop, and
\* the except clause drops it), arm the destroy timer
on_close ==
    /\ fgpc = "mainloop"
    /\ ~inPoll
    /\ stop_event' = TRUE
    /\ \/ /\ application
          /\ ~ThreadEnded
          /\ BagCardinality(sdTasks) < MaxClose
          /\ sdTasks' = sdTasks (+) SetToBag({"sd_call"})
       \/ UNCHANGED sdTasks
    /\ destroyTimer' = TRUE
    /\ UNCHANGED <<cfgVars, fgpc, inPoll, logged, status, application,
                   barcode_api, client, bgpc, shutdownRuns, handlers, relayVars, decVars, inbound>>

\* the timer armed by on_close fires root.destroy: mainloop returns and the
\* process ends, taking the daemon thread with it
Destroy ==
    /\ fgpc = "mainloop"
    /\ ~inPoll
    /\ destroyTimer
    /\ fgpc' = "destroyed"
    /\ UNCHANGED <<cfgVars, inPoll, logged, botVars, relayVars, decVars, inbound>>

----------------------------------------------------------------------------
(* decode_datamatrix *)

MsgApiError == <<"ERROR", "api_error">>   \* "Ошибка Cloudmersive API при распознавании: %s"
MsgSendFailed == <<"ERROR", "send_failed">>
                        \* "Не удалось отправить изображение в Cloudmersive API: %s"
MsgEmptyResponse == <<"WARNING", "empty_response">>  \* "Пустой ответ от Cloudmersive API"
MsgNoBarcodes == <<"INFO", "no_barcodes">>
                        \* "Cloudmersive API не вернул распознанные штрихкоды"
MsgNoText == <<"INFO", "no_text">>
                        \* "Cloudmersive API не предоставил текст распознанного кода"

\* attribute values of a symbol record: "" stands for a falsy value (None, "",
\* a missing attribute), the others are decoded texts
Vals == {"", "A", "B"}
Truthy(v) == v # ""

\* the attribute names probed on the response and on a record, in source order
ListNames == <<"barcodes", "Barcodes", "barcode_results", "BarcodeResults">>
ValueNames == <<"barcode_value", "BarcodeValue", "value">>

Symbols == [{ValueNames[i] : i \in 1..3} -> Vals]

\* a response object: under each list name a list of records (<<>> stands for
\* a missing attribute, None or an empty list, which `or` treats alike)
RECURSIVE Pick(_, _)
Pick(flat, name) ==
    IF flat = <<>> THEN <<>>
    ELSE IF Head(flat)[1] = name
         THEN <<Head(flat)[2]>> \o Pick(Tail(flat), name)
         ELSE Pick(Tail(flat), name)

Tagged == {ListNames[i] : i \in 1..4} \X Symbols

\* the response whose records, tagged with their list names, are `flat`
Response(flat) ==
    [isNone |-> FALSE,
     lists |-> [n \in {ListNames[i] : i \in 1..4} |-> Pick(flat, n)]]

\* barcode_scan_image returned None
NoneResponse ==
    [isNone |-> TRUE, lists |-> [n \in {ListNames[i] : i \in 1..4} |-> <<>>]]

EmptyResponse == [isNone |-> FALSE,
                  lists |-> [n \in {ListNames[i] : i \in 1..4} |-> <<>>]]

\* the try block fails: the file cannot be opened, or the API call raises
FailedCalls ==
    {[open |-> "OSError", call |-> "ok", response |-> EmptyResponse]}
    \cup {[open |-> "ok", call |-> c, response |-> EmptyResponse] :
            c \in {"ApiException", "Exception"}}

\* the API call returned `response`
Answer(response) == [open |-> "ok", call |-> "ok", response |-> response]

\* what can happen inside the try block: opening the file, then the API
\* call, which raises, returns None or returns up to MaxSymbols records
IsDecodeInput(inp) ==
    \/ inp \in FailedCalls
    \/ inp = Answer(NoneResponse)
    \/ \E k \in 0..MaxSymbols :
         \E flat \in [1..k -> Tagged] : inp = Answer(Response(flat))

\* a or b or c ... over the values found under `names`, in order
RECURSIVE FirstTruthy(_, _, _)
FirstTruthy(obj, names, falsy) ==
    IF names = <<>> THEN falsy
    ELSE IF obj[Head(names)] # falsy THEN obj[Head(names)]
         ELSE FirstTruthy(obj, Tail(names), falsy)

\* the loop over the records probing the value names in the opposite order
RECURSIVE FirstValueLowestName(_)
FirstValueLowestName(barcodes) ==
    IF barcodes = <<>> THEN ""
    ELSE LET value == FirstTruthy(Head(barcodes),
                                  <<"value", "BarcodeValue", "barcode_value">>, "")
         IN IF Truthy(value) THEN value ELSE FirstValueLowestName(Tail(barcodes))

\* for barcode in barcodes: the first record with a truthy value
RECURSIVE FirstValue(_)
FirstValue(barcodes) ==
    IF barcodes = <<>> THEN ""
    ELSE LET value == FirstTruthy(Head(barcodes), ValueNames, "")
         IN IF Truthy(value) THEN value ELSE FirstValue(Tail(barcodes))

ReturnNone(logs) == [raised |-> FALSE, none |-> TRUE, text |-> "", logs |-> logs]
ReturnText(text) == [raised |-> FALSE, none |-> FALSE, text |-> text, logs |-> <<>>]
Propagate == [raised |-> TRUE, none |-> TRUE, text |-> "", logs |-> <<>>]

\* decode_datamatrix with only its first except clause
DecodeExceptApiOnly(exc) ==
    IF exc = "ApiException" THEN ReturnNone(<<MsgApiError>>) ELSE Propagate

\* except clauses that hand an error text back as if it had been decoded
DecodeExceptAsText(exc) == ReturnText("A")

\* the except clauses of decode_datamatrix
DecodeExcept(exc) ==
    IF exc = "ApiException" THEN ReturnNone(<<MsgApiError>>)
    ELSE IF exc \in {"Exception", "OSError"} THEN ReturnNone(<<MsgSendFailed>>)
    ELSE Propagate

decode_datamatrix(inp) ==
    LET exc == IF inp.open # "ok" THEN inp.open
               ELSE IF inp.call # "ok" THEN inp.call ELSE "none"
    IN IF exc # "none" THEN DecodeExcept(exc)
       ELSE IF inp.response.isNone THEN ReturnNone(<<MsgEmptyResponse>>)
       ELSE LET barcodes == FirstTruthy(inp.response.lists, ListNames, <<>>)
            IN IF barcodes = <<>> THEN ReturnNone(<<MsgNoBarcodes>>)
               ELSE IF Truthy(FirstValue(barcodes))
                    THEN ReturnText(FirstValue(barcodes))
                    ELSE ReturnNone(<<MsgNoText>>)

NotRun == [raised |-> FALSE, none |-> TRUE, text |-> "", logs |-> <<>>]

\* SpecDecode: call decode_datamatrix on the chosen input
RunDecode ==
    /\ fgpc = "decode_call"
    /\ dOut' = decode_datamatrix(dIn)
    /\ Log(decode_datamatrix(dIn).logs)
    /\ fgpc' = "decode_done"
    /\ UNCHANGED <<cfgVars, inPoll, botVars, relayVars, dIn, inbound>>

----------------------------------------------------------------------------
(* The handlers: cmd_start, cmd_help, unknown_command, handle_image *)

MsgDownloaded == <<"INFO", "downloaded">>       \* "Изображение скачано: %s"
MsgNoClient == <<"ERROR", "no_client">>         \* "Cloudmersive API клиент не инициализирован"
MsgDecoded == <<"INFO", "decoded">>             \* "Код успешно распознан: %s"
MsgNotFound == <<"WARNING", "not_found">>       \* "DataMatrix не найден на изображении"
MsgUnlinkFailed == <<"WARNING", "unlink_failed">> \* "Не удалось удалить временный файл %s"

\* kinds of inbound update: the three commands told apart by the handlers, a
\* photo, an image document, an edited message with a photo (update.message
\* is None), and a plain text
UpdateKinds == {"start", "help", "foo", "photo", "document", "edited_photo", "text"}

\* the same handlers with the filters.COMMAND fallback registered first
RegisteredFallbackFirst ==
    <<"unknown_command", "cmd_start", "cmd_help", "handle_image">>

\* the handlers in the order add_handler registers them, with their filters
Registered == <<"cmd_start", "cmd_help", "handle_image", "unknown_command">>

Matches(handler, kind) ==
    CASE handler = "cmd_start" -> kind = "start"
      [] handler = "cmd_help" -> kind = "help"
      [] handler = "handle_image" -> kind \in {"photo", "document", "edited_photo"}
      [] handler = "unknown_command" -> kind \in {"start", "help", "foo"}
      [] OTHER -> FALSE

\* the Application runs the first handler of the group whose filter matches
RECURSIVE FirstMatch(_, _)
FirstMatch(hs, kind) ==
    IF hs = <<>> THEN "none"
    ELSE IF Matches(Head(hs), kind) THEN Head(hs)
         ELSE FirstMatch(Tail(hs), kind)

Route(kind) == FirstMatch(Registered, kind)

\* update.message is None: an edited message or a channel post
NoMessage(kind) == kind = "edited_photo"

\* file_id as handle_image finds it: from message.photo, else message.document
HasFileId(kind) == kind \in {"photo", "document"}

\* an invocation: the callback chosen, its position, its temporary file, the
\* replies it has sent and its decoded_text
NewHandler(kind) ==
    [handler |-> Route(kind),
     pc |-> IF Route(kind) = "none" THEN "done" ELSE "begin",
     tmp |-> "none", replies |-> <<>>, decoded |-> NoResult]

\* the text each command handler replies with
CommandReply(handler) ==
    CASE handler = "cmd_start" -> "usage_greeting"
      [] handler = "cmd_help" -> "usage_help"
      [] OTHER -> "unknown_command"

\* finally: tmp_path.unlink(missing_ok=True), which may fail and is then logged
Unlink(h, unlinked) ==
    [h |-> [h EXCEPT !.tmp = IF unlinked /\ h.tmp = "exists" THEN "deleted" ELSE h.tmp],
     logs |-> IF unlinked THEN <<>> ELSE <<MsgUnlinkFailed>>]

\* a command handler: await update.message.reply_text(...)
command_handler(h, ok) ==
    IF ok
    THEN [h |-> [h EXCEPT !.pc = "done",
                          !.replies = Append(h.replies, CommandReply(h.handler))],
          logs |-> <<>>]
    ELSE [h |-> [h EXCEPT !.pc = "raised"], logs |-> <<>>]

\* handle_image from its first line to its first await (lines 251-268)
handle_image_begin(h, kind) ==
    IF NoMessage(kind) THEN [h EXCEPT !.pc = "done"]
    ELSE IF ~HasFileId(kind) THEN [h EXCEPT !.pc = "reply_nofile"]
    ELSE [h EXCEPT !.pc = "get_file", !.tmp = "exists"]

\* handle_image, one step from h.pc: `ok` tells whether the awaited call
\* returned, `inp` is what the decode step meets, `unlinked` whether the file
\* could be removed
handle_image(h, ok, inp, unlinked) ==
    CASE h.pc = "reply_nofile" ->
           IF ok
           THEN [h |-> [h EXCEPT !.pc = "done",
                                 !.replies = Append(h.replies, "no_image")],
                 logs |-> <<>>]
           ELSE [h |-> [h EXCEPT !.pc = "raised"], logs |-> <<>>]
      [] h.pc = "get_file" ->
           [h |-> [h EXCEPT !.pc = IF ok THEN "download" ELSE "raised"],
            logs |-> <<>>]
      [] h.pc = "download" ->
           IF ~ok
           THEN [h |-> [h EXCEPT !.pc = "raised"], logs |-> <<>>]
           ELSE IF ~barcode_api
           THEN [h |-> [h EXCEPT !.pc = "reply_unavailable"],
                 logs |-> <<MsgDownloaded>>]
           ELSE [h |-> [h EXCEPT !.pc = "decode"], logs |-> <<MsgDownloaded>>]
      [] h.pc = "reply_unavailable" ->
           IF ok
           THEN [h |-> [h EXCEPT !.pc = "done",
                                 !.replies = Append(h.replies, "unavailable")],
                 logs |-> <<MsgNoClient>>]
           ELSE [h |-> [h EXCEPT !.pc = "raised"], logs |-> <<>>]
      [] h.pc = "decode" ->
           \* await asyncio.to_thread(decode_datamatrix, ...)
           LET r == decode_datamatrix(inp)
           IN IF r.raised
              THEN LET u == Unlink(h, unlinked)
                   IN [h |-> [u.h EXCEPT !.pc = "raised"], logs |-> u.logs]
              ELSE [h |-> [h EXCEPT !.pc = "reply",
                                    !.decoded = [none |-> r.none, text |-> r.text]],
                    logs |-> r.logs]
      [] h.pc = "reply" ->
           LET u == Unlink(h, unlinked)
               text == IF ~h.decoded.none /\ Truthy(h.decoded.text)
                       THEN "found" ELSE "not_recognized"
           IN IF ok
              THEN [h |-> [u.h EXCEPT !.pc = "done", !.decoded = NoResult,
                                      !.replies = Append(h.replies, text)],
                    logs |-> <<IF text = "found" THEN MsgDecoded ELSE MsgNotFound>>
                             \o u.logs]
              ELSE [h |-> [u.h EXCEPT !.pc = "raised", !.decoded = NoResult],
                    logs |-> u.logs]
      [] OTHER -> [h |-> h, logs |-> <<>>]

\* the decode outcomes met by handlers in Spec: the service fails, it finds
\* no symbol, it finds one (SpecDecode covers the other inputs)
OneSymbol(v) == [isNone |-> FALSE,
                 lists |-> [n \in {ListNames[i] : i \in 1..4} |->
                              IF n = "barcodes"
                              THEN <<[m \in {ValueNames[i] : i \in 1..3} |->
                                        IF m = "barcode_value" THEN v ELSE ""]>>
                              ELSE <<>>]]

DecodeCases ==
    {[open |-> "ok", call |-> "ApiException", response |-> EmptyResponse],
     [open |-> "ok", call |-> "ok", response |-> EmptyResponse],
     [open |-> "ok", call |-> "ok", response |-> OneSymbol("A")]}

\* the callback of the handler that was chosen for the update
Callback(h, ok, inp, unlinked) ==
    IF h.handler = "handle_image" THEN handle_image(h, ok, inp, unlinked)
    ELSE command_handler(h, ok)

\* a new invocation runs from its first line to its first await
Enter(h, kind) ==
    IF h.pc # "begin" THEN h
    ELSE IF h.handler = "handle_image" THEN handle_image_begin(h, kind)
    ELSE [h EXCEPT !.pc = "reply"]

\* an update of the given kind arrives while the Application runs and the
\* Updater polls: with concurrent_updates(True) its handler starts as a task
\* of its own
DispatchOf(kind) ==
    /\ ProcessAlive
    /\ ~ThreadEnded
    /\ client.running
    /\ client.updater
    /\ BagCardinality(handlers) < MaxUpdates
    /\ handlers' = handlers (+) SetToBag({Enter(NewHandler(kind), kind)})
    /\ UNCHANGED <<cfgVars, fgpc, inPoll, logged, status, stop_event,
                   application, barcode_api, client, bgpc, sdTasks,
                   shutdownRuns, destroyTimer, relayVars, decVars>>

Dispatch == \E kind \in UpdateKinds : DispatchOf(kind) /\ UNCHANGED inbound

\* SpecRoute: the same, keeping the kind of each update
RouteUpdate ==
    \E kind \in UpdateKinds : DispatchOf(kind) /\ inbound' = Append(inbound, kind)

\* a handler step whose exception reaches the polling loop and stops it
HandlerStepStopsLoop ==
    /\ ProcessAlive
    /\ ~ThreadEnded
    /\ \E h \in InFlight(handlers) :
       \E ok \in BOOLEAN, unlinked \in BOOLEAN, inp \in DecodeCases :
         LET r == Callback(h, ok, inp, unlinked)
         IN /\ handlers' = (handlers (-) SetToBag({h})) (+) SetToBag({r.h})
            /\ Log(r.logs)
            /\ stop_event' = (stop_event \/ r.h.pc = "raised")
    /\ UNCHANGED <<cfgVars, fgpc, inPoll, status,
                   application, barcode_api, client, bgpc, sdTasks,
                   shutdownRuns, destroyTimer, relayVars, decVars, inbound>>

\* a handler invocation runs up to its next await, or ends
HandlerStep ==
    /\ ProcessAlive
    /\ ~ThreadEnded
    /\ \E h \in InFlight(handlers) :
       \E ok \in BOOLEAN, unlinked \in BOOLEAN, inp \in DecodeCases :
         LET r == Callback(h, ok, inp, unlinked)
         IN /\ handlers' = (handlers (-) SetToBag({h})) (+) SetToBag({r.h})
            /\ Log(r.logs)
    /\ UNCHANGED <<cfgVars, fgpc, inPoll, status, stop_event,
                   application, barcode_api, client, bgpc, sdTasks,
                   shutdownRuns, destroyTimer, relayVars, decVars, inbound>>

----------------------------------------------------------------------------
(* The log relay: QueueLogger.emit on any thread, poll_log_queue on the Tk  *)
(* timer.  queue.Queue makes each put and each get_nowait atomic; a drain   *)
(* is a loop of get_nowait calls that puts may interleave with.             *)

\* the lines a logging call may carry
LogLines == {MsgInit, MsgConnected, MsgCritical, MsgStopping}

\* Formatter "%(asctime)s [%(levelname)s] %(message)s" (the time is left out)
format(rec) == <<"[" \o rec[1] \o "]", rec[2]>>

\* LOG_QUEUE.put(msg)
put(q, msg) == Append(q, msg)

\* a get that takes the newest message instead of the oldest
get_nowait_lifo(q) == [msg |-> q[Len(q)], rest |-> SubSeq(q, 1, Len(q) - 1)]

\* one LOG_QUEUE.get_nowait() on a queue that is not empty: the message taken
\* and the queue it leaves
get_nowait(q) == [msg |-> Head(q), rest |-> Tail(q)]

\* append_log: insert the line at the end of the widget
append_log(widget, msg) == Append(widget, msg)

\* QueueLogger.emit: format the record and put it; when format raises,
\* handleError reports it and nothing is put
emit ==
    /\ Len(published) < MaxLog
    /\ \E rec \in LogLines, ok \in BOOLEAN :
         IF ok
         THEN /\ LOG_QUEUE' = put(LOG_QUEUE, format(rec))
              /\ published' = Append(published, format(rec))
         ELSE UNCHANGED <<LOG_QUEUE, published>>
    /\ UNCHANGED <<cfgVars, fgpc, inPoll, log_widget, logged, botVars, decVars, inbound>>

\* the Tk timer fires poll_log_queue (it is rescheduled every 200 ms)
PollStart ==
    /\ fgpc = "mainloop"
    /\ ~inPoll
    /\ inPoll' = TRUE
    /\ UNCHANGED <<cfgVars, fgpc, relayVars, logged, botVars, decVars, inbound>>

\* one iteration of the while loop that finds a message
PollGet ==
    /\ inPoll
    /\ LOG_QUEUE # <<>>
    /\ LOG_QUEUE' = get_nowait(LOG_QUEUE).rest
    /\ log_widget' = append_log(log_widget, get_nowait(LOG_QUEUE).msg)
    /\ UNCHANGED <<cfgVars, fgpc, inPoll, published, logged, botVars, decVars, inbound>>

\* queue.Empty: leave the loop and reschedule the timer
PollEnd ==
    /\ inPoll
    /\ LOG_QUEUE = <<>>
    /\ inPoll' = FALSE
    /\ UNCHANGED <<cfgVars, fgpc, relayVars, logged, botVars, decVars, inbound>>

-----
(* Specifications *)

InitBot ==
    /\ status = StInitializing
    /\ stop_event = FALSE
    /\ application = FALSE
    /\ barcode_api = FALSE
    /\ client = NewClient
    /\ sdTasks = EmptyBag
    /\ shutdownRuns = 0
    /\ destroyTimer = FALSE
    /\ handlers = EmptyBag

\* SpecConfig: main() has built the window and __init__ reaches ensure_config
InitConfig ==
    /\ configFile \in ConfigFiles
    /\ ec = [loaded |-> NoConfig, token |-> <<>>, api_key |-> <<>>]
    /\ config = NoConfig
    /\ asked = <<>>
    /\ saves = 0
    /\ fgpc = "construct"
    /\ inPoll = FALSE
    /\ LOG_QUEUE = <<>>
    /\ published = <<>>
    /\ log_widget = <<>>
    /\ logged = EmptyBag
    /\ bgpc = "none"
    /\ InitBot
    /\ dIn = [open |-> "ok", call |-> "ok", response |-> EmptyResponse]
    /\ dOut = NotRun
    /\ inbound = <<>>

NextConfig ==
    \/ EnsureConfigLoad
    \/ AskToken
    \/ AskApiKey
    \/ InitCheck

SpecConfig == InitConfig /\ [][NextConfig]_vars

\* Spec: the state __init__ leaves when it started the bot thread with a
\* complete configuration loaded from config.json
Init ==
    /\ configFile = save(MkConfig(<<"x">>, <<"x">>))
    /\ config = MkConfig(<<"x">>, <<"x">>)
    /\ ec = [loaded |-> config, token |-> <<"x">>, api_key |-> <<"x">>]
    /\ asked = <<>>
    /\ saves = 0
    /\ fgpc = "mainloop"
    /\ inPoll = FALSE
    /\ LOG_QUEUE = <<>>
    /\ published = <<>>
    /\ log_widget = <<>>
    /\ logged = SetToBag({MsgLoaded})
    /\ status = StStarting
    /\ stop_event = FALSE
    /\ application = FALSE
    /\ barcode_api = FALSE
    /\ client = NewClient
    /\ bgpc = "run"
    /\ sdTasks = EmptyBag
    /\ shutdownRuns = 0
    /\ destroyTimer = FALSE
    /\ handlers = EmptyBag
    /\ dIn = [open |-> "ok", call |-> "ok", response |-> EmptyResponse]
    /\ dOut = NotRun
    /\ inbound = <<>>

Next ==
    \/ BackendInit
    \/ BuildApplication
    \/ Initialize
    \/ Start
    \/ StartPolling
    \/ LoopCheck
    \/ FinallyShutdown
    \/ TaskShutdown
    \/ on_close
    \/ Destroy
    \/ Dispatch
    \/ HandlerStep

Spec == Init /\ [][Next]_vars

\* SpecFair: the same program with a bot thread whose event loop keeps
\* running: asyncio.sleep(0.5) returns and the loop condition is evaluated
SpecFair == Init /\ [][Next]_vars /\ WF_vars(LoopCheck)

\* SpecDecode: decode_datamatrix applied to every input within the bounds
InitDecode ==
    /\ configFile = save(MkConfig(<<"x">>, <<"x">>))
    /\ config = MkConfig(<<"x">>, <<"x">>)
    /\ ec = [loaded |-> config, token |-> <<"x">>, api_key |-> <<"x">>]
    /\ asked = <<>>
    /\ saves = 0
    /\ fgpc = "decode_call"
    /\ inPoll = FALSE
    /\ LOG_QUEUE = <<>>
    /\ published = <<>>
    /\ log_widget = <<>>
    /\ logged = EmptyBag
    /\ bgpc = "none"
    /\ InitBot
    /\ IsDecodeInput(dIn)
    /\ dOut = NotRun
    /\ inbound = <<>>

NextDecode == RunDecode

SpecDecode == InitDecode /\ [][NextDecode]_vars

\* SpecLog: the relay alone, fed with any stream of lines
InitLog ==
    /\ configFile = save(MkConfig(<<"x">>, <<"x">>))
    /\ config = MkConfig(<<"x">>, <<"x">>)
    /\ ec = [loaded |-> config, token |-> <<"x">>, api_key |-> <<"x">>]
    /\ asked = <<>>
    /\ saves = 0
    /\ fgpc = "mainloop"
    /\ inPoll = FALSE
    /\ LOG_QUEUE = <<>>
    /\ published = <<>>
    /\ log_widget = <<>>
    /\ logged = EmptyBag
    /\ bgpc = "run"
    /\ InitBot
    /\ dIn = [open |-> "ok", call |-> "ok", response |-> EmptyResponse]
    /\ dOut = NotRun
    /\ inbound = <<>>

NextLog ==
    \/ emit
    \/ PollStart
    \/ PollGet
    \/ PollEnd

SpecLog == InitLog /\ [][NextLog]_vars

\* SpecRoute: the bot thread up to polling and the handlers, with the kind
\* of every dispatched update kept
InitRoute == Init

NextRoute ==
    \/ BackendInit
    \/ BuildApplication
    \/ Initialize
    \/ Start
    \/ StartPolling
    \/ RouteUpdate
    \/ HandlerStep

SpecRoute == InitRoute /\ [][NextRoute]_vars

----------------------------------------------------------------------------
(* Properties *)

Ended(h) == h.pc \in {"done", "raised"}

\* C1 (SpecLog): the lines shown in the widget followed by the lines still
\* queued are the published lines in publish order: nothing is lost,
\* reordered or duplicated, whatever the interleaving of puts and gets
C1_RelayKeepsOrder == log_widget \o LOG_QUEUE = published

\* a drain is under way with a line shown, a different line still queued
C1_Witness ==
    /\ inPoll
    /\ log_widget # <<>>
    /\ LOG_QUEUE # <<>>
    /\ Len(published) = MaxLog
    /\ log_widget[1] # LOG_QUEUE[1]

\* C2: when no step of the polling loop raised, the body of shutdown_bot is
\* executed at most once, however often on_close was called
C2_ShutdownAtMostOnce == ~BagIn(MsgCritical, logged) => shutdownRuns <= 1

\* C3: an invocation of handle_image that created its temporary file and has
\* ended (returned or raised) has left no temporary file
C3_TempFileRemoved ==
    \A h \in BagToSet(handlers) :
        (h.handler = "handle_image" /\ Ended(h)) => h.tmp # "exists"

\* C4 (SpecDecode): decode_datamatrix does not raise; it returns a text that
\* is not empty, or None after logging a line
C4_DecodeNeverRaises ==
    fgpc = "decode_done" =>
        /\ ~dOut.raised
        /\ dOut.none => BagCardinality(logged) >= 1
        /\ ~dOut.none => (dOut.text # "" /\ logged = EmptyBag)

\* the call raised something other than ApiException and None came back
C4_Witness ==
    /\ fgpc = "decode_done"
    /\ dIn.call = "Exception"
    /\ dOut.none
    /\ BagIn(MsgSendFailed, logged)

\* C5: an invocation of handle_image for a message with an image (it created
\* its temporary file) that has ended has sent exactly one reply, and no
\* exception left the handler
C5_ExactlyOneReply ==
    \A h \in BagToSet(handlers) :
        (h.handler = "handle_image" /\ h.tmp # "none" /\ Ended(h)) =>
            (h.pc = "done" /\ Len(h.replies) = 1)

\* the invocations that ended with an exception
RaisedBag(hs) ==
    [h \in {x \in BagToSet(hs) : x.pc = "raised"} |-> CopiesIn(h, hs)]

\* a step in which one more handler invocation ends with an exception
HandlerFails ==
    BagCardinality(RaisedBag(handlers')) > BagCardinality(RaisedBag(handlers))

\* C6: a step in which a handler fails changes nothing of the lifecycle (the
\* status, the stop event, the position of the polling loop, the client, the
\* shutdown tasks) and touches no other invocation
C6_HandlerFailureIsolated ==
    [][HandlerFails =>
       (/\ UNCHANGED <<status, stop_event, bgpc, client, application,
                       sdTasks, shutdownRuns, destroyTimer, fgpc>>
        /\ \E h \in InFlight(handlers) :
             (handlers (-) SetToBag({h})) \sqsubseteq handlers')]_vars

\* one invocation has failed, another has completed, and the loop still polls
C6_Witness ==
    /\ status = StPolling
    /\ bgpc = "loop"
    /\ ~stop_event
    /\ client.running /\ client.updater
    /\ \E h \in BagToSet(handlers) : h.pc = "raised"
    /\ \E h \in BagToSet(handlers) : h.pc = "done" /\ h.replies # <<>>

\* C7: once the status is a failure status or the stopped status, no step
\* changes it
C7_FailedAndStoppedTerminal ==
    [][(status \in {StError, StBackendError, StStopped}) => (status' = status)]_vars

\* C8: when a step of the polling loop raised and the thread has ended (no
\* shutdown task was scheduled), the finally clause's shutdown has run to its
\* end: the coroutine returned and the client is stopped and released
C8_ShutdownCompletesAfterError ==
    (BagIn(MsgCritical, logged) /\ ThreadEnded /\ sdTasks = EmptyBag) =>
        (bgpc = "returned" /\ status = StStopped /\ ~client.running
         /\ ~client.initialized)

\* C9: when the construction of the Cloudmersive client or of the telegram
\* Application failed, the status is a failure status
C9_InitFailureIsFailed ==
    (ThreadEnded /\ bgpc # "none" /\ ~application) =>
        status \in {StError, StBackendError}

\* the operator closed the last dialog shown without a value
Abandoned ==
    /\ asked # <<>>
    /\ \/ asked[Len(asked)] = "token" /\ ec.token = <<>>
       \/ asked[Len(asked)] = "api_key" /\ ec.api_key = <<>>

\* C10 (SpecConfig): the bot thread is started only with a token and an
\* api_key that are not empty, and never after an abandoned dialog, which
\* leaves the window to be destroyed
C10_StartedOnlyWithConfig ==
    /\ bgpc # "none" =>
         (config.present /\ config.token # <<>> /\ config.api_key # <<>>)
    /\ Abandoned => (bgpc = "none" /\ fgpc \in {"check", "destroyed"})
    /\ fgpc = "destroyed" => bgpc = "none"

\* the key dialog was abandoned after a token was typed: window destroyed
C10_Witness ==
    /\ asked = <<"token", "api_key">>
    /\ ec.token # <<>>
    /\ Abandoned
    /\ fgpc = "destroyed"
    /\ bgpc = "none"

\* a record exposes a value under some recognised name
HasValue(rec) == \E i \in 1..3 : Truthy(rec[ValueNames[i]])

\* the value of a record under its highest-priority name that has one
PriorityValue(rec) ==
    rec[ValueNames[CHOOSE i \in 1..3 :
                     /\ Truthy(rec[ValueNames[i]])
                     /\ \A j \in 1..(i - 1) : ~Truthy(rec[ValueNames[j]])]]

\* the list the loop runs over: the first list name holding a non-empty list
SelectedList(r) ==
    IF \A i \in 1..4 : r.lists[ListNames[i]] = <<>> THEN <<>>
    ELSE r.lists[ListNames[CHOOSE i \in 1..4 :
                    /\ r.lists[ListNames[i]] # <<>>
                    /\ \A j \in 1..(i - 1) : r.lists[ListNames[j]] = <<>>]]

\* every record of the response, list after list
AllRecords(r) ==
    r.lists["barcodes"] \o r.lists["Barcodes"]
        \o r.lists["barcode_results"] \o r.lists["BarcodeResults"]

\* out is the priority value of the first record of recs that has a value,
\* and None exactly when no record of recs has one
FirstOf(recs, out) ==
    /\ ~out.raised
    /\ out.none <=> ~\E i \in 1..Len(recs) : HasValue(recs[i])
    /\ ~out.none =>
         \E i \in 1..Len(recs) :
            /\ HasValue(recs[i])
            /\ \A j \in 1..(i - 1) : ~HasValue(recs[j])
            /\ out.text = PriorityValue(recs[i])

Answered == fgpc = "decode_done" /\ dIn.open = "ok" /\ dIn.call = "ok"
                /\ ~dIn.response.isNone

\* C11 as stated (SpecDecode): over all records of the response, the result
\* is the highest-priority value of the first record that has a value, and
\* None exactly when no record of the response has one
C11_FirstOfWholeResponse == Answered => FirstOf(AllRecords(dIn.response), dOut)

\* C11 amended (SpecDecode): the same over the records of the first list
\* name (barcodes, Barcodes, barcode_results, BarcodeResults) that holds a
\* non-empty list; records under later list names are never looked at
C11_FirstOfSelectedList == Answered => FirstOf(SelectedList(dIn.response), dOut)

\* a record without a value, then a record with different values under two
\* names: the value under the higher-priority name is returned
C11_Witness ==
    /\ Answered
    /\ Len(SelectedList(dIn.response)) = 2
    /\ ~HasValue(SelectedList(dIn.response)[1])
    /\ SelectedList(dIn.response)[2] =
          [barcode_value |-> "", BarcodeValue |-> "B", value |-> "A"]
    /\ dOut.text = "B"

\* handle_image from its decode step to its end, when the decode step meets
\* inp and the reply is sent (ok) or fails
ImageOutcome(h, inp, ok, unlinked) ==
    LET d == handle_image(h, TRUE, inp, unlinked)
        r == handle_image(d.h, ok, inp, unlinked)
    IN [replies |-> r.h.replies, logs |-> d.logs \o r.logs]

HasErrorLine(logs) == \E i \in 1..Len(logs) : logs[i][1] = "ERROR"

\* the service answers with no symbol record
ZeroSymbolInputs == {[open |-> "ok", call |-> "ok", response |-> EmptyResponse]}

\* C12: for an image handler about to decode, a failed call and an answer
\* without symbols lead to the same replies, the "not recognized" reply when
\* it can be sent, and only the failed call logs an ERROR line
C12_ReplyHidesCause ==
    \A h \in BagToSet(handlers) :
        (h.handler = "handle_image" /\ h.pc = "decode") =>
            \A f \in FailedCalls, z \in ZeroSymbolInputs,
               ok \in BOOLEAN, unlinked \in BOOLEAN :
                LET of == ImageOutcome(h, f, ok, unlinked)
                    oz == ImageOutcome(h, z, ok, unlinked)
                IN /\ of.replies = oz.replies
                   /\ ok => of.replies = <<"not_recognized">>
                   /\ HasErrorLine(of.logs)
                   /\ ~HasErrorLine(oz.logs)

\* two image handlers have ended with the "not recognized" reply, one after
\* an API error and one after an answer without symbols
C12_Witness ==
    /\ BagCardinality(handlers) = 2
    /\ \A h \in BagToSet(handlers) :
          h.handler = "handle_image" /\ h.pc = "done"
              /\ h.replies = <<"not_recognized">>
    /\ CopiesIn(MsgApiError, logged) = 1
    /\ CopiesIn(MsgNoBarcodes, logged) = 1
    /\ CopiesIn(MsgNotFound, logged) = 2

\* the routing table: the handler named for each kind of update
Expected(kind) ==
    CASE kind = "start" -> "cmd_start"
      [] kind = "help" -> "cmd_help"
      [] kind = "foo" -> "unknown_command"
      [] kind \in {"photo", "document", "edited_photo"} -> "handle_image"
      [] OTHER -> "none"

\* the replies each handler may send
RepliesOf(handler) ==
    CASE handler = "cmd_start" -> {"usage_greeting"}
      [] handler = "cmd_help" -> {"usage_help"}
      [] handler = "unknown_command" -> {"unknown_command"}
      [] handler = "handle_image" ->
           {"found", "not_recognized", "no_image", "unavailable"}
      [] OTHER -> {}

\* an update was dispatched in this step: exactly one invocation was added,
\* of the handler the table names for its kind, and an update without a
\* handler adds an invocation that has ended with no reply and no file;
\* nothing else changes
RoutedByKind ==
    Len(inbound') > Len(inbound) =>
        LET kind == inbound'[Len(inbound')]
        IN /\ \E rec \in BagToSet(handlers') :
                /\ handlers' = handlers (+) SetToBag({rec})
                /\ rec.handler = Expected(kind)
                /\ Expected(kind) = "none" =>
                     (rec.pc = "done" /\ rec.replies = <<>> /\ rec.tmp = "none")
           /\ UNCHANGED <<status, stop_event, logged, client, bgpc, application>>

\* an invocation sends at most one reply, one of its handler's own, and a
\* command handler that has returned has sent it
RepliesByHandler ==
    \A h \in BagToSet(handlers) :
        /\ Len(h.replies) <= 1
        /\ \A i \in 1..Len(h.replies) : h.replies[i] \in RepliesOf(h.handler)
        /\ (h.pc = "done" /\ h.handler \in {"cmd_start", "cmd_help", "unknown_command"})
              => Len(h.replies) = 1

\* C13 (SpecRoute): every update is dispatched to at most one handler, the
\* one its kind names: /start to cmd_start, /help to cmd_help, another
\* command to unknown_command, a photo or image document to handle_image,
\* anything else to no handler, with no reply and no change of state
C13_OneHandlerByKind == []RepliesByHandler /\ [][RoutedByKind]_vars

\* /start, which both CommandHandler("start") and filters.COMMAND match, has
\* been answered with the greeting only; a plain text has met no handler
C13_Witness ==
    /\ inbound = <<"start", "text">>
    /\ BagCardinality(handlers) = 2
    /\ \E h \in BagToSet(handlers) :
          h.handler = "cmd_start" /\ h.pc = "done"
              /\ h.replies = <<"usage_greeting">>
    /\ \E h \in BagToSet(handlers) : h.handler = "none" /\ h.replies = <<>>

StopNeverCleared == [][stop_event => stop_event']_vars

C15_StoppedBeforeExit ==
    []((bgpc = "loop" /\ ~stop_event) => [](fgpc = "destroyed" => status = StStopped))

\* C16: while no shutdown has begun, the status is the polling status only
\* when the Application is initialized and started and its Updater polls
C16_PollingOnlyWhenConnected ==
    (status = StPolling /\ shutdownRuns = 0) =>
        (client.initialized /\ client.running /\ client.updater)

\* C17: when the bot thread has ended after a shutdown was started, the
\* Updater and the Application are stopped, the Application is shut down
\* and the status is the stopped status
C17_StartedShutdownCompletes ==
    (shutdownRuns >= 1 /\ ThreadEnded) =>
        /\ status = StStopped
        /\ ~client.updater /\ ~client.running /\ ~client.initialized

\* a step of the Tk thread: it moves the thread, sets the stop event, arms
\* the destroy timer or appends to the log widget
ForegroundStep ==
    \/ fgpc' # fgpc
    \/ inPoll' # inPoll
    \/ stop_event' # stop_event
    \/ destroyTimer' # destroyTimer
    \/ log_widget' # log_widget

\* a step of the bot thread: _run_async_bot or a shutdown_bot task moves
BackgroundStep == bgpc' # bgpc \/ sdTasks' # sdTasks

\* C18: once the bot thread is started, no step of the Tk thread changes
\* the status; every change of the status is made by a step of the bot
\* thread, and the Tk thread only sets the stop event
C18_StatusWrittenByBotThread ==
    [][/\ ForegroundStep => (status' = status)
       /\ (status' # status) => (BackgroundStep /\ ~ForegroundStep)]_vars

\* on_close has run while the loop polls, scheduling a shutdown task, and
\* the status is still the one the bot thread wrote
C18_Witness ==
    /\ stop_event
    /\ destroyTimer
    /\ sdTasks # EmptyBag
    /\ bgpc = "loop"
    /\ status = StPolling
    /\ fgpc = "mainloop"

\* C19: whenever an invocation of handle_image exists, the Cloudmersive
\* client has been built; no invocation is in or past the branch that
\* replies "service unavailable", and its error line is never logged
C19_BackendBuiltBeforeHandlers ==
    /\ \A h \in BagToSet(handlers) :
          h.handler = "handle_image" =>
              /\ barcode_api
              /\ h.pc # "reply_unavailable"
              /\ \A i \in 1..Len(h.replies) : h.replies[i] # "unavailable"
    /\ ~BagIn(MsgNoClient, logged)

\* an image handler has passed the test of self._barcode_api after its
\* download and is about to decode
C19_Witness ==
    /\ barcode_api
    /\ \E h \in BagToSet(handlers) :
          h.handler = "handle_image" /\ h.pc = "decode" /\ h.tmp = "exists"
    /\ BagIn(MsgDownloaded, logged)

\* ensure_config has returned
Returned == fgpc \in {"check", "mainloop", "destroyed"}

\* the dialogs that the loaded configuration calls for, in order
MissingFields ==
    (IF ec.loaded.token = <<>> THEN <<"token">> ELSE <<>>)
        \o (IF ec.loaded.api_key = <<>> THEN <<"api_key">> ELSE <<>>)

IsPrefix(p, q) == Len(p) <= Len(q) /\ \A i \in 1..Len(p) : p[i] = q[i]

Complete(cfg) == cfg.present /\ cfg.token # <<>> /\ cfg.api_key # <<>>

\* C20 (SpecConfig): ensure_config returns None or a configuration with a
\* token and an api_key that are not empty; it shows only the dialogs for
\* the fields the loaded configuration lacks, token first; it saves once,
\* exactly when a dialog was shown and the result is complete, and never
\* after an abandoned dialog or a complete loaded configuration
C20_EnsureConfigContract ==
    /\ IsPrefix(asked, MissingFields)
    /\ saves <= 1
    /\ ~Returned => saves = 0
    /\ Returned =>
         /\ config = NoConfig \/ Complete(config)
         /\ Complete(config) => asked = MissingFields
         /\ saves = 1 <=> (asked # <<>> /\ Complete(config))
         /\ saves = 1 => (configFile = save(config) /\ BagIn(MsgSaved, logged))
         /\ Abandoned => (config = NoConfig /\ saves = 0)
         /\ Complete(ec.loaded) => (config = ec.loaded /\ asked = <<>> /\ saves = 0)

\* the file held a token and no key: only the key dialog was shown, and the
\* completed configuration was saved
C20_Witness ==
    /\ fgpc = "check"
    /\ ec.loaded.present
    /\ ec.loaded.token # <<>>
    /\ ec.loaded.api_key = <<>>
    /\ asked = <<"api_key">>
    /\ Complete(config)
    /\ saves = 1

====
